---- MODULE Spec2Model ----
(***************************************************************************)
(* Authentication and authorization layer of the Lenny Media backend       *)
(* (src/auth.py, src/app.py, src/config.py, src/models.py).                *)
(*                                                                         *)
(* JSON strings are modelled as sequences of one-character strings, so     *)
(* that strip(), upper() and the e-mail pattern are computed character by  *)
(* character.  Python's None is the one-element sequence None, which is    *)
(* no character sequence.  Enum members and response texts are TLA+        *)
(* strings.                                                                *)
(***************************************************************************)
EXTENDS Integers, Sequences, FiniteSets, TLC

VARIABLES users, nextId, now, issued, jar, req, resp, entered, registered, proc

vars == <<users, nextId, now, issued, jar, req, resp, entered, registered, proc>>

----------------------------------------------------------------------------
(* Characters and strings                                                  *)

None == <<"None">>

LowerLetters ==
  <<"a","b","c","d","e","f","g","h","i","j","k","l","m",
    "n","o","p","q","r","s","t","u","v","w","x","y","z">>

UpperLetters ==
  <<"A","B","C","D","E","F","G","H","I","J","K","L","M",
    "N","O","P","Q","R","S","T","U","V","W","X","Y","Z">>

Digits == {"0","1","2","3","4","5","6","7","8","9"}

Letters == {LowerLetters[i] : i \in 1..26} \cup {UpperLetters[i] : i \in 1..26}

AlNum == Letters \cup Digits

\* [a-zA-Z0-9!#$%&'*+/=?^_.{|}~-] where . after _ is the grave accent, which
\* a TLA+ string cannot hold and is written "GRAVE"
AText == AlNum \cup {"!","#","$","%","&","'","*","+","/","=","?","^","_","GRAVE","{","|","}","~","-"}

Whitespace == {" ", "\t", "\n", "\r"}

\* the printable ASCII characters and the white space the model writes strings in
Chars == AText \cup Whitespace \cup {".", "@", "\"", "\\", "[", "]", "(", ")", ",", ":", ";", "<", ">"}

\* str.upper() on one character
UpperChar(c) ==
  IF \E i \in 1..26 : LowerLetters[i] = c
  THEN UpperLetters[CHOOSE i \in 1..26 : LowerLetters[i] = c]
  ELSE c

\* str.upper()
Upper(s) == [i \in 1..Len(s) |-> UpperChar(s[i])]

RECURSIVE LStrip(_)
LStrip(s) == IF s # <<>> /\ Head(s) \in Whitespace THEN LStrip(Tail(s)) ELSE s

RECURSIVE RStrip(_)
RStrip(s) ==
  IF s # <<>> /\ s[Len(s)] \in Whitespace THEN RStrip(SubSeq(s, 1, Len(s) - 1)) ELSE s

\* str.strip()
Strip(s) == RStrip(LStrip(s))

\* str.split(c): the pieces between the occurrences of c
Split(s, c) ==
  LET idx == {i \in 1..Len(s) : s[i] = c}
      n   == Cardinality(idx)
      \* the position of the k-th separator; 0 and Len(s) + 1 bound the string
      pos(k) == IF k = 0 THEN 0
                ELSE IF k = n + 1 THEN Len(s) + 1
                ELSE CHOOSE i \in idx : Cardinality({j \in idx : j < i}) = k - 1
  IN  [k \in 1..(n + 1) |-> SubSeq(s, pos(k - 1) + 1, pos(k) - 1)]

\* the index of the last occurrence of c in s, 0 when there is none
LastIndexOf(s, c) ==
  IF \E i \in 1..Len(s) : s[i] = c
  THEN CHOOSE i \in 1..Len(s) : s[i] = c /\ \A j \in (i + 1)..Len(s) : s[j] # c
  ELSE 0

\* "sub in s" for a two-character sub
Contains2(s, c1, c2) == \E i \in 1..(Len(s) - 1) : s[i] = c1 /\ s[i + 1] = c2

\* Python truthiness of a JSON string or None
Truthy(x) == x # None /\ x # <<>>

----------------------------------------------------------------------------
(* is_valid_email                                                          *)

MAX_EMAIL_LEN == 254
MIN_EMAIL_LEN == 6
MAX_LOCAL_LEN == 64
MAX_DOMAIN_LEN == 253
MIN_TLD_LEN == 2

\* [a-zA-Z0-9!#...~-]+(?:\.[a-zA-Z0-9!#...~-]+)*
IsDotAtom(l) ==
  LET parts == Split(l, ".")
  IN  \A i \in 1..Len(parts) :
        /\ parts[i] # <<>>
        /\ \A k \in 1..Len(parts[i]) : parts[i][k] \in AText

\* [\x01-\x08\x0b\x0c\x0e-\x1f\x21\x23-\x5b\x5d-\x7f], within Chars
QText == Chars \ {"\t", "\n", "\r", " ", "\"", "\\"}

\* \\[\x01-\x09\x0b\x0c\x0e-\x7f], the character after the backslash, within Chars
QPair == Chars \ {"\n", "\r"}

\* (?:qtext|\\qpair)*
RECURSIVE IsQuotedContent(_)
IsQuotedContent(s) ==
  IF s = <<>> THEN TRUE
  ELSE IF Head(s) = "\\"
       THEN Len(s) >= 2 /\ s[2] \in QPair /\ IsQuotedContent(SubSeq(s, 3, Len(s)))
       ELSE Head(s) \in QText /\ IsQuotedContent(Tail(s))

\* "(?:qtext|\\qpair)*"
IsQuotedLocal(l) ==
  /\ Len(l) >= 2
  /\ l[1] = "\""
  /\ l[Len(l)] = "\""
  /\ IsQuotedContent(SubSeq(l, 2, Len(l) - 1))

\* [a-zA-Z0-9](?:[a-zA-Z0-9-]*[a-zA-Z0-9])?
IsLabel(x) ==
  /\ x # <<>>
  /\ x[1] \in AlNum
  /\ x[Len(x)] \in AlNum
  /\ \A k \in 1..Len(x) : x[k] \in AlNum \cup {"-"}

\* (?:label\.)+label
IsHostName(d) ==
  LET labels == Split(d, ".")
  IN  Len(labels) >= 2 /\ \A i \in 1..Len(labels) : IsLabel(labels[i])

\* 25[0-5]|2[0-4][0-9]|[01]?[0-9][0-9]?
IsOctet(o) ==
  /\ Len(o) \in 1..3
  /\ \A k \in 1..Len(o) : o[k] \in Digits
  /\ Len(o) = 3 =>
       \/ o[1] \in {"0", "1"}
       \/ o[1] = "2" /\ o[2] \in {"0","1","2","3","4"}
       \/ o[1] = "2" /\ o[2] = "5" /\ o[3] \in {"0","1","2","3","4","5"}

\* \[(?:octet\.){3}octet\]
IsIPLiteral(d) ==
  /\ Len(d) >= 2
  /\ d[1] = "["
  /\ d[Len(d)] = "]"
  /\ LET octets == Split(SubSeq(d, 2, Len(d) - 1), ".")
     IN  Len(octets) = 4 /\ \A i \in 1..4 : IsOctet(octets[i])

\* email_pattern.match(email): neither domain form holds an "@", so the
\* "@" of the pattern is the last one of the string
EmailPatternMatch(e) ==
  LET at == LastIndexOf(e, "@")
      l  == SubSeq(e, 1, at - 1)
      d  == SubSeq(e, at + 1, Len(e))
  IN  /\ at > 0
      /\ IsDotAtom(l) \/ IsQuotedLocal(l)
      /\ IsHostName(d) \/ IsIPLiteral(d)

is_valid_email(email) ==
  IF ~Truthy(email) THEN FALSE
  ELSE
    LET e  == Strip(email)
        at == LastIndexOf(e, "@")
        local_part  == SubSeq(e, 1, at - 1)
        domain_part == SubSeq(e, at + 1, Len(e))
        parts == Split(domain_part, ".")
        tld   == parts[Len(parts)]
    IN  IF Len(e) > MAX_EMAIL_LEN \/ Len(e) < MIN_EMAIL_LEN THEN FALSE
        ELSE IF ~EmailPatternMatch(e) THEN FALSE
        ELSE IF Len(local_part) > MAX_LOCAL_LEN THEN FALSE
        ELSE IF Len(domain_part) > MAX_DOMAIN_LEN THEN FALSE
        ELSE IF \A i \in 1..Len(domain_part) : domain_part[i] # "." THEN FALSE
        ELSE IF Contains2(e, ".", ".") THEN FALSE
        ELSE IF domain_part[1] = "." \/ domain_part[Len(domain_part)] = "." THEN FALSE
        ELSE IF domain_part[1] = "-" \/ domain_part[Len(domain_part)] = "-" THEN FALSE
        ELSE IF Len(tld) < MIN_TLD_LEN THEN FALSE
        ELSE TRUE

----------------------------------------------------------------------------
(* models.py: UserRole, the users table, the password hasher               *)

UserRole == {"ADMIN", "PHOTOGRAPHER", "STAFF"}

\* the member names, as UserRole[...] looks them up
UserRoleName ==
  [r \in UserRole |->
     CASE r = "ADMIN"        -> <<"A","D","M","I","N">>
       [] r = "PHOTOGRAPHER" -> <<"P","H","O","T","O","G","R","A","P","H","E","R">>
       [] r = "STAFF"        -> <<"S","T","A","F","F">>]

\* the member values, as role.value serializes them
UserRoleValue ==
  [r \in UserRole |->
     CASE r = "ADMIN"        -> <<"a","d","m","i","n">>
       [] r = "PHOTOGRAPHER" -> <<"p","h","o","t","o","g","r","a","p","h","e","r">>
       [] r = "STAFF"        -> <<"s","t","a","f","f">>]

\* a lookup that falls back to STAFF for a name that is no member's
UserRoleByNameOrStaff(name) ==
  IF \E r \in UserRole : UserRoleName[r] = name
  THEN CHOOSE r \in UserRole : UserRoleName[r] = name
  ELSE "STAFF"

\* UserRole[name]: the member of that name, "KeyError" when there is none
UserRoleByName(name) ==
  IF \E r \in UserRole : UserRoleName[r] = name
  THEN CHOOSE r \in UserRole : UserRoleName[r] = name
  ELSE "KeyError"

\* generate_password_hash: salted and one-way; the digest is an opaque value
\* that only the same salt and plaintext reproduce
generate_password_hash(password, salt) ==
  [salt |-> salt, digest |-> <<salt, password>>]

check_password_hash(pwhash, password) ==
  pwhash.digest = <<pwhash.salt, password>>

\* a row that is created inactive, to be activated by somebody later
User_pending(id, email, password, full_name, role, phone, avatar_url) ==
  [id |-> id, email |-> email, password |-> password, full_name |-> full_name,
   role |-> role, phone |-> phone, avatar_url |-> avatar_url,
   is_active |-> FALSE, last_login |-> None]

\* User(...): a row with the column defaults (role is always passed by auth.py)
User(id, email, password, full_name, role, phone, avatar_url) ==
  [id |-> id, email |-> email, password |-> password, full_name |-> full_name,
   role |-> role, phone |-> phone, avatar_url |-> avatar_url,
   is_active |-> TRUE, last_login |-> None]

\* a projection that serializes every column of the row
as_dict_full(u) ==
  [id |-> u.id, email |-> u.email, password |-> u.password,
   full_name |-> u.full_name, role |-> UserRoleValue[u.role], phone |-> u.phone,
   avatar_url |-> u.avatar_url, is_active |-> u.is_active,
   last_login |-> u.last_login]

\* User.as_dict (created_at and updated_at are not modelled)
as_dict(u) ==
  [id |-> u.id, email |-> u.email, full_name |-> u.full_name,
   role |-> UserRoleValue[u.role], phone |-> u.phone,
   avatar_url |-> u.avatar_url, is_active |-> u.is_active,
   last_login |-> u.last_login]

\* the lookup with its key upper-cased and the stored e-mail left as it is
filter_by_email_upper(email) == {u \in users : u.email = Upper(email)}

\* User.query.filter_by(email=email)
filter_by_email(email) == {u \in users : u.email = email}

\* User.query.get(user_id)
query_get(user_id) == {u \in users : u.id = user_id}

\* the role column compared with the member's value instead of the member
admin_exists_value == \E u \in users : u.role = "admin"

\* User.query.filter_by(role=UserRole.ADMIN).first() is not None
admin_exists == \E u \in users : u.role = "ADMIN"

\* db.session.commit() of a row: email is unique and full_name is NOT NULL
CommitOK(store) ==
  /\ \A u, v \in store : u.email = v.email => u = v
  /\ \A u \in store : u.full_name # None

----------------------------------------------------------------------------
(* Tokens and the session cookie                                           *)

\* timedelta(days=1), in seconds
ACCESS_EXPIRES == 24 * 60 * 60

\* max_age of the access_token cookie
COOKIE_MAX_AGE == 24 * 60 * 60

NoToken == [key |-> "none"]

\* the role claim taken from the member's name instead of its value
create_access_token_name(u) ==
  [sub |-> u.id, email |-> u.email, role |-> UserRoleName[u.role],
   iat |-> now, exp |-> now + ACCESS_EXPIRES, key |-> "JWT_SECRET_KEY"]

\* create_access_token(identity=str(user.id), additional_claims={email, role},
\* expires_delta=timedelta(days=1)), signed with JWT_SECRET_KEY
create_access_token(u) ==
  [sub |-> u.id, email |-> u.email, role |-> UserRoleValue[u.role],
   iat |-> now, exp |-> now + ACCESS_EXPIRES, key |-> "JWT_SECRET_KEY"]

\* JWT_TOKEN_LOCATION = ['headers']: the cookie is not looked at
TokenInHeader(r) == r.header

\* JWT_TOKEN_LOCATION = ['cookies', 'headers']: the first location that
\* carries a token is the one decoded
TokenInRequest(r) == IF r.cookie # NoToken THEN r.cookie ELSE r.header

\* verification that still accepts a token at the instant it expires
verify_jwt_late(r) ==
  LET t == TokenInRequest(r)
  IN  IF t = NoToken THEN "authorization_required"
      ELSE IF t.key # "JWT_SECRET_KEY" THEN "invalid_token"
      ELSE IF t.exp < now THEN "token_expired"
      ELSE "ok"

\* verify_jwt_in_request: the signature is checked before the expiry
verify_jwt_in_request(r) ==
  LET t == TokenInRequest(r)
  IN  IF t = NoToken THEN "authorization_required"
      ELSE IF t.key # "JWT_SECRET_KEY" THEN "invalid_token"
      ELSE IF t.exp <= now THEN "token_expired"
      ELSE "ok"

NoCookie == [op |-> "none"]

\* response.set_cookie('access_token', access_token, httponly=True, ...)
set_cookie(t) ==
  [op |-> "set", name |-> "access_token", value |-> t, httponly |-> TRUE,
   path |-> "/", max_age |-> COOKIE_MAX_AGE]

\* response.delete_cookie('access_token')
delete_cookie == [op |-> "delete", name |-> "access_token", path |-> "/"]

----------------------------------------------------------------------------
(* Handlers of auth.py.  A handler maps the request, in the current state, *)
(* to an outcome: the response (status, body, cookie), the store after     *)
(* the commit, whether a row was created and whether the handler's body    *)
(* ran.                                                                    *)

\* request.get_json() of the body null: None, which has no get() and no
\* `in`; a JSON object is a record whose values are never this text
NullBody == [json |-> "null"]

\* data.get(key)
Get(data, key) == IF key \in DOMAIN data THEN data[key] ELSE None

\* a response that leaves the store and the cookie alone
Reply(status, body) ==
  [status |-> status, body |-> body, cookie |-> NoCookie,
   store |-> users, created |-> FALSE, ran |-> TRUE]

\* app.py internal_error: an exception the handler does not catch;
\* the transaction is not committed
InternalError ==
  Reply(500, [error |-> "internal_server_error",
              message |-> "An internal server error occurred."])

\* app.py expired_token_loader, invalid_token_loader, missing_token_loader
JwtErrorMessage ==
  [token_expired          |-> "The token has expired. Please log in again.",
   invalid_token          |-> "Signature verification failed.",
   authorization_required |-> "Request does not contain a valid token."]

\* a guard that lets an expired token through to the handler's body
jwt_required_unexpired(r, outcome) ==
  LET v == verify_jwt_in_request(r)
  IN  IF v \in {"ok", "token_expired"} THEN outcome
      ELSE [status |-> 401, body |-> [error |-> v, message |-> JwtErrorMessage[v]],
            cookie |-> NoCookie, store |-> users, created |-> FALSE, ran |-> FALSE]

\* @jwt_required(): the handler's body runs only for a token that verifies
jwt_required(r, outcome) ==
  LET v == verify_jwt_in_request(r)
  IN  IF v = "ok" THEN outcome
      ELSE [status |-> 401, body |-> [error |-> v, message |-> JwtErrorMessage[v]],
            cookie |-> NoCookie, store |-> users, created |-> FALSE, ran |-> FALSE]

Forbidden == [msg |-> "Forbidden: Access Denied"]

\* a role gate that only asks for a role claim, whatever its value
role_required_any(required_role, r, fn) ==
  LET claims == TokenInRequest(r)
  IN  jwt_required(r,
        IF "role" \notin DOMAIN claims
        THEN [Reply(403, Forbidden) EXCEPT !.ran = FALSE]
        ELSE fn)

\* role_required(required_role)(fn)
role_required(required_role, r, fn) ==
  LET claims == TokenInRequest(r)
  IN  jwt_required(r,
        IF "role" \notin DOMAIN claims \/ Upper(claims.role) # Upper(required_role)
        THEN [Reply(403, Forbidden) EXCEPT !.ran = FALSE]
        ELSE fn)

\* the user object of the login and register-first-admin responses
SessionUser(u) ==
  [id |-> u.id, email |-> u.email, role |-> UserRoleValue[u.role],
   full_name |-> u.full_name, phone |-> u.phone, avatar_url |-> u.avatar_url,
   is_active |-> u.is_active]

\* login that answers an unknown e-mail with its own 404
login_enumerating(r) ==
  LET data     == r.data
      email    == Get(data, "email")
      password == Get(data, "password")
      found    == filter_by_email(email)
      user     == CHOOSE u \in found : TRUE
      access_token == create_access_token(user)
  IN  IF data = NullBody         \* AttributeError at data.get
      THEN InternalError
      ELSE IF ~Truthy(email) \/ ~Truthy(password)
      THEN Reply(400, [error |-> "Email and password are required"])
      ELSE IF found = {}
      THEN Reply(404, [error |-> "User not found"])
      ELSE IF ~check_password_hash(user.password, password)
      THEN Reply(401, [error |-> "Invalid email or password"])
      ELSE IF ~user.is_active
      THEN Reply(403, [error |-> "Account is deactivated"])
      ELSE [status |-> 200,
            body |-> [message |-> "Login successful", user |-> SessionUser(user)],
            cookie |-> set_cookie(access_token),
            store |-> users, created |-> FALSE, ran |-> TRUE]

\* login that never looks at is_active
login_ungated(r) ==
  LET data     == r.data
      email    == Get(data, "email")
      password == Get(data, "password")
      found    == filter_by_email(email)
      user     == CHOOSE u \in found : TRUE
      access_token == create_access_token(user)
  IN  IF data = NullBody         \* AttributeError at data.get
      THEN InternalError
      ELSE IF ~Truthy(email) \/ ~Truthy(password)
      THEN Reply(400, [error |-> "Email and password are required"])
      ELSE IF found = {} \/ ~check_password_hash(user.password, password)
      THEN Reply(401, [error |-> "Invalid email or password"])
      ELSE [status |-> 200,
            body |-> [message |-> "Login successful", user |-> SessionUser(user)],
            cookie |-> set_cookie(access_token),
            store |-> users, created |-> FALSE, ran |-> TRUE]

\* login that stamps last_login on the row of the user it lets in
login_stamping(r) ==
  LET data     == r.data
      email    == Get(data, "email")
      password == Get(data, "password")
      found    == filter_by_email(email)
      user     == CHOOSE u \in found : TRUE
      access_token == create_access_token(user)
  IN  IF data = NullBody
      THEN InternalError
      ELSE IF ~Truthy(email) \/ ~Truthy(password)
      THEN Reply(400, [error |-> "Email and password are required"])
      ELSE IF found = {} \/ ~check_password_hash(user.password, password)
      THEN Reply(401, [error |-> "Invalid email or password"])
      ELSE IF ~user.is_active
      THEN Reply(403, [error |-> "Account is deactivated"])
      ELSE [status |-> 200,
            body |-> [message |-> "Login successful", user |-> SessionUser(user)],
            cookie |-> set_cookie(access_token),
            store |-> (users \ {user}) \cup {[user EXCEPT !.last_login = <<"utcnow">>]},
            created |-> FALSE, ran |-> TRUE]

login(r) ==
  LET data     == r.data
      email    == Get(data, "email")
      password == Get(data, "password")
      found    == filter_by_email(email)
      user     == CHOOSE u \in found : TRUE
      access_token == create_access_token(user)
  IN  IF data = NullBody         \* AttributeError at data.get
      THEN InternalError
      ELSE IF ~Truthy(email) \/ ~Truthy(password)
      THEN Reply(400, [error |-> "Email and password are required"])
      ELSE IF found = {} \/ ~check_password_hash(user.password, password)
      THEN Reply(401, [error |-> "Invalid email or password"])
      ELSE IF ~user.is_active
      THEN Reply(403, [error |-> "Account is deactivated"])
      ELSE [status |-> 200,
            body |-> [message |-> "Login successful", user |-> SessionUser(user)],
            cookie |-> set_cookie(access_token),
            store |-> users, created |-> FALSE, ran |-> TRUE]

\* logout behind @jwt_required()
logout_protected(r) ==
  jwt_required(r,
    [status |-> 200, body |-> [message |-> "Logout successful"],
     cookie |-> delete_cookie, store |-> users, created |-> FALSE, ran |-> TRUE])

logout(r) ==
  [status |-> 200, body |-> [message |-> "Logout successful"],
   cookie |-> delete_cookie, store |-> users, created |-> FALSE, ran |-> TRUE]

InvalidRoleMessage ==
  "Invalid role specified. Must be one of: ADMIN, PHOTOGRAPHER, STAFF"

\* register that logs the new user in, as register_first_admin does
register_autologin(r) ==
  LET data      == r.data
      email     == Get(data, "email")
      password  == Get(data, "password")
      full_name == Get(data, "full_name")
      role      == IF "role" \in DOMAIN data THEN data.role ELSE <<"S","T","A","F","F">>
      user_role == UserRoleByName(Upper(role))
      new_user  == User(nextId, email, generate_password_hash(password, nextId),
                        full_name, user_role, Get(data, "phone"), Get(data, "avatar_url"))
  IN  IF data = NullBody         \* AttributeError at data.get
      THEN InternalError
      ELSE IF ~(Truthy(email) /\ Truthy(password) /\ Truthy(full_name))
      THEN Reply(400, [msg |-> "Email, password, and full name are required"])
      ELSE IF ~is_valid_email(email)
      THEN Reply(400, [msg |-> "Invalid email address"])
      ELSE IF filter_by_email(email) # {}
      THEN Reply(400, [msg |-> "Email already registered"])
      ELSE IF role = None
      THEN InternalError
      ELSE IF user_role = "KeyError"
      THEN Reply(400, [msg |-> InvalidRoleMessage])
      ELSE IF ~CommitOK(users \cup {new_user})
      THEN InternalError
      ELSE [status |-> 201,
            body |-> [msg |-> "User registered successfully",
                      user_id |-> new_user.id, email |-> new_user.email],
            cookie |-> set_cookie(create_access_token(new_user)),
            store |-> users \cup {new_user}, created |-> TRUE, ran |-> TRUE]

\* register that keeps the ADMIN role for callers holding an ADMIN token
register_unprivileged(r) ==
  LET data      == r.data
      email     == Get(data, "email")
      password  == Get(data, "password")
      full_name == Get(data, "full_name")
      role      == IF "role" \in DOMAIN data THEN data.role ELSE <<"S","T","A","F","F">>
      user_role == UserRoleByName(Upper(role))
      new_user  == User(nextId, email, generate_password_hash(password, nextId),
                        full_name, user_role, Get(data, "phone"), Get(data, "avatar_url"))
  IN  IF data = NullBody
      THEN InternalError
      ELSE IF ~(Truthy(email) /\ Truthy(password) /\ Truthy(full_name))
      THEN Reply(400, [msg |-> "Email, password, and full name are required"])
      ELSE IF ~is_valid_email(email)
      THEN Reply(400, [msg |-> "Invalid email address"])
      ELSE IF filter_by_email(email) # {}
      THEN Reply(400, [msg |-> "Email already registered"])
      ELSE IF role = None
      THEN InternalError
      ELSE IF user_role = "KeyError"
      THEN Reply(400, [msg |-> InvalidRoleMessage])
      ELSE IF user_role = "ADMIN"
      THEN role_required(<<"A","D","M","I","N">>, r,
             [status |-> 201,
              body |-> [msg |-> "User registered successfully",
                        user_id |-> new_user.id, email |-> new_user.email],
              cookie |-> NoCookie,
              store |-> users \cup {new_user}, created |-> TRUE, ran |-> TRUE])
      ELSE IF ~CommitOK(users \cup {new_user})
      THEN InternalError
      ELSE [status |-> 201,
            body |-> [msg |-> "User registered successfully",
                      user_id |-> new_user.id, email |-> new_user.email],
            cookie |-> NoCookie,
            store |-> users \cup {new_user}, created |-> TRUE, ran |-> TRUE]

register(r) ==
  LET data      == r.data
      email     == Get(data, "email")
      password  == Get(data, "password")
      full_name == Get(data, "full_name")
      role      == IF "role" \in DOMAIN data THEN data.role ELSE <<"S","T","A","F","F">>
      user_role == UserRoleByName(Upper(role))
      new_user  == User(nextId, email, generate_password_hash(password, nextId),
                        full_name, user_role, Get(data, "phone"), Get(data, "avatar_url"))
  IN  IF data = NullBody         \* AttributeError at data.get
      THEN InternalError
      ELSE IF ~(Truthy(email) /\ Truthy(password) /\ Truthy(full_name))
      THEN Reply(400, [msg |-> "Email, password, and full name are required"])
      ELSE IF ~is_valid_email(email)
      THEN Reply(400, [msg |-> "Invalid email address"])
      ELSE IF filter_by_email(email) # {}
      THEN Reply(400, [msg |-> "Email already registered"])
      ELSE IF role = None           \* AttributeError: None has no upper()
      THEN InternalError
      ELSE IF user_role = "KeyError"
      THEN Reply(400, [msg |-> InvalidRoleMessage])
      ELSE IF ~CommitOK(users \cup {new_user})
      THEN InternalError
      ELSE [status |-> 201,
            body |-> [msg |-> "User registered successfully",
                      user_id |-> new_user.id, email |-> new_user.email],
            cookie |-> NoCookie,
            store |-> users \cup {new_user}, created |-> TRUE, ran |-> TRUE]

get_profile(r) ==
  LET user_id == TokenInRequest(r).sub
      found   == query_get(user_id)
      user    == CHOOSE u \in found : TRUE
  IN  jwt_required(r,
        IF found = {} THEN Reply(404, [msg |-> "User not found"])
        ELSE Reply(200, as_dict(user)))

\* update_profile that also takes email and is_active from the request
update_profile_mass(r) ==
  LET user_id == TokenInRequest(r).sub
      found   == query_get(user_id)
      user    == CHOOSE u \in found : TRUE
      data    == r.data
      updated == [user EXCEPT
                    !.full_name  = IF "full_name" \in DOMAIN data THEN data.full_name ELSE @,
                    !.phone      = IF "phone" \in DOMAIN data THEN data.phone ELSE @,
                    !.avatar_url = IF "avatar_url" \in DOMAIN data THEN data.avatar_url ELSE @,
                    !.email      = IF "email" \in DOMAIN data THEN data.email ELSE @,
                    !.is_active  = IF "is_active" \in DOMAIN data THEN data.is_active ELSE @]
      store   == (users \ {user}) \cup {updated}
  IN  jwt_required(r,
        IF found = {} THEN Reply(404, [msg |-> "User not found"])
        ELSE IF data = NullBody THEN InternalError   \* TypeError at `in data`
        ELSE IF ~CommitOK(store) THEN InternalError  \* IntegrityError at commit
        ELSE [status |-> 200,
              body |-> [msg |-> "Profile updated successfully", user |-> as_dict(updated)],
              cookie |-> NoCookie, store |-> store, created |-> FALSE, ran |-> TRUE])

update_profile(r) ==
  LET user_id == TokenInRequest(r).sub
      found   == query_get(user_id)
      user    == CHOOSE u \in found : TRUE
      data    == r.data
      updated == [user EXCEPT
                    !.full_name  = IF "full_name" \in DOMAIN data THEN data.full_name ELSE @,
                    !.phone      = IF "phone" \in DOMAIN data THEN data.phone ELSE @,
                    !.avatar_url = IF "avatar_url" \in DOMAIN data THEN data.avatar_url ELSE @]
      store   == (users \ {user}) \cup {updated}
  IN  jwt_required(r,
        IF found = {} THEN Reply(404, [msg |-> "User not found"])
        ELSE IF data = NullBody THEN InternalError   \* TypeError at `in data`
        ELSE IF ~CommitOK(store) THEN InternalError  \* IntegrityError at commit
        ELSE [status |-> 200,
              body |-> [msg |-> "Profile updated successfully", user |-> as_dict(updated)],
              cookie |-> NoCookie, store |-> store, created |-> FALSE, ran |-> TRUE])

check_admin(r) == Reply(200, [admin_exists |-> admin_exists])

register_first_admin(r) ==
  LET data      == r.data
      email     == Get(data, "email")
      password  == Get(data, "password")
      full_name == Get(data, "full_name")
      new_admin == User(nextId, email, generate_password_hash(password, nextId),
                        full_name, "ADMIN", None, None)
      access_token == create_access_token(new_admin)
  IN  IF admin_exists
      THEN Reply(403, [msg |-> "Admin already exists"])
      ELSE IF data = NullBody       \* AttributeError at data.get
      THEN InternalError
      ELSE IF ~(Truthy(email) /\ Truthy(password) /\ Truthy(full_name))
      THEN Reply(400, [msg |-> "All fields are required"])
      ELSE IF ~is_valid_email(email)
      THEN Reply(400, [msg |-> "Invalid email address"])
      ELSE IF filter_by_email(email) # {}
      THEN Reply(400, [msg |-> "Email already registered"])
      ELSE IF ~CommitOK(users \cup {new_admin})
      THEN InternalError
      ELSE [status |-> 201,
            body |-> [msg |-> "First admin registered successfully",
                      admin_id |-> new_admin.id, email |-> new_admin.email,
                      user |-> SessionUser(new_admin)],
            cookie |-> set_cookie(access_token),
            store |-> users \cup {new_admin}, created |-> TRUE, ran |-> TRUE]

get_users(r) ==
  LET claims == TokenInRequest(r)
  IN  jwt_required(r,
        IF Get(claims, "role") # <<"a","d","m","i","n">>
        THEN Reply(403, Forbidden)
        ELSE Reply(200, [users |-> {as_dict(u) : u \in users}]))

\* the claims of the verified token, as get_jwt() returns them
get_jwt(r) ==
  LET t == TokenInRequest(r)
  IN  [k \in (DOMAIN t) \ {"key"} |-> t[k]]

get_current_user(r) ==
  LET user_id == TokenInRequest(r).sub
      claims  == get_jwt(r)
      found   == query_get(user_id)
      user    == CHOOSE u \in found : TRUE
  IN  jwt_required(r,
        IF found = {} THEN Reply(404, [msg |-> "User not found"])
        ELSE Reply(200, [id |-> user.id, email |-> user.email,
                         role |-> UserRoleValue[user.role],
                         full_name |-> user.full_name, phone |-> user.phone,
                         avatar_url |-> user.avatar_url, claims |-> claims]))

\* a route that another blueprint wraps in role_required(r.required_role)
admin_route(r) ==
  role_required(r.required_role, r, Reply(200, [msg |-> "ok"]))

----------------------------------------------------------------------------
(* The state machine                                                       *)
(*                                                                         *)
(* users    the rows of the users table                                    *)
(* nextId   the id (and salt) the next created row gets: uuid4 and the     *)
(*          hasher's salt are fresh values                                 *)
(* now      the server's clock, in seconds                                 *)
(* issued   the tokens issued so far that some client still holds          *)
(* jar      the access_token cookie of the browser                         *)
(* req      the request being answered, resp the response to it            *)
(* entered  whether the body of the handler ran for req                    *)
(* registered  history: the id, email and password of each request that    *)
(*          created a row                                                  *)
(* proc     the requests that worker processes are answering at the same   *)
(*          time, each with its position in its handler                    *)

MaxUsers  == 2      \* rows the store may hold
MaxTokens == 2      \* tokens the clients keep
MaxTicks  == 3      \* clock steps, of half a token lifetime each
NumProcs  == 2      \* worker processes that answer requests at the same time

Procs == 1..NumProcs

ClockStep == ACCESS_EXPIRES \div 2

Request(op, data, cookie, header) ==
  [op |-> op, data |-> data, cookie |-> cookie, header |-> header]

Init ==
  /\ users = {}
  /\ nextId = 1
  /\ now = 0
  /\ issued = {}
  /\ jar = NoToken
  /\ req = [op |-> "none"]
  /\ resp = [status |-> 0]
  /\ entered = FALSE
  /\ registered = {}
  /\ proc = [p \in Procs |-> [pc |-> "idle"]]

\* the tokens clients hold once token t is issued: at most MaxTokens are
\* tracked, a client that takes t when the pool is full drops another one
Retained(t) ==
  IF Cardinality(issued \cup {t}) <= MaxTokens THEN {issued \cup {t}}
  ELSE {(issued \ {old}) \cup {t} : old \in issued}

\* no request is being answered
Ready == req.op = "none"

\* the server answers request r with outcome o; the browser's cookie jar
\* follows the Set-Cookie header of the response
Handle(r, o) ==
  /\ Ready
  /\ o.created => Cardinality(users) < MaxUsers
  /\ req' = r
  /\ resp' = [status |-> o.status, body |-> o.body, cookie |-> o.cookie]
  /\ entered' = o.ran
  /\ users' = o.store
  /\ nextId' = IF o.created THEN nextId + 1 ELSE nextId
  /\ registered' = IF o.created
                   THEN registered \cup {[id |-> nextId, email |-> r.data.email,
                                          password |-> r.data.password]}
                   ELSE registered
  /\ issued' \in (IF o.cookie.op = "set" THEN Retained(o.cookie.value) ELSE {issued})
  /\ jar' = CASE o.cookie.op = "set"    -> o.cookie.value
              [] o.cookie.op = "delete" -> NoToken
              [] OTHER                  -> jar
  /\ UNCHANGED <<now, proc>>

Login(r)              == r.op = "login" /\ Handle(r, login(r))
Logout(r)             == r.op = "logout" /\ Handle(r, logout(r))
Register(r)           == r.op = "register" /\ Handle(r, register(r))
GetProfile(r)         == r.op = "get_profile" /\ Handle(r, get_profile(r))
UpdateProfile(r)      == r.op = "update_profile" /\ Handle(r, update_profile(r))
CheckAdmin(r)         == r.op = "check_admin" /\ Handle(r, check_admin(r))
RegisterFirstAdmin(r) == r.op = "register_first_admin" /\ Handle(r, register_first_admin(r))
GetUsers(r)           == r.op = "get_users" /\ Handle(r, get_users(r))
GetCurrentUser(r)     == r.op = "get_current_user" /\ Handle(r, get_current_user(r))
AdminRoute(r)         == r.op = "admin_route" /\ Handle(r, admin_route(r))

\* the client has read the response; the next request can be sent
Idle ==
  /\ ~Ready
  /\ req' = [op |-> "none"]
  /\ resp' = [status |-> 0]
  /\ entered' = FALSE
  /\ UNCHANGED <<users, nextId, now, issued, jar, registered, proc>>

\* time passes between two requests
Tick ==
  /\ Ready
  /\ now < MaxTicks * ClockStep
  /\ now' = now + ClockStep
  /\ UNCHANGED <<users, nextId, issued, jar, req, resp, entered, registered, proc>>

----------------------------------------------------------------------------
(* Request inputs                                                          *)

\* a key the request body does not carry
Absent == <<"Absent">>

\* the JSON object with the keys of f that are not Absent
MkData(f) == [k \in {x \in DOMAIN f : f[x] # Absent} |-> f[k]]

NoData == MkData([email |-> Absent])

e_ab    == <<"a","@","b",".","c","o">>
e_cd    == <<"c","@","d",".","i","o">>
e_ef    == <<"e","@","f",".","u","k">>
e_bad   == <<"a","@","b">>
pw1     == <<"p","w","1">>
pw2     == <<"p","w","2">>
n_ab    == <<"A"," ","B">>
n_cd    == <<"C"," ","D">>
s_admin == <<"a","d","m","i","n">>
s_Admin == <<"A","d","m","i","n">>
s_ADMIN == <<"A","D","M","I","N">>
s_boss  == <<"b","o","s","s">>

\* a token of the server's, re-signed with a key that is not JWT_SECRET_KEY
Tampered(t) == [t EXCEPT !.key = "attacker"]

\* what a client can put in the cookie or in the Authorization header
TokenInputs == {NoToken} \cup issued \cup {Tampered(t) : t \in issued}

LoginRequest(e, p) ==
  Request("login", MkData([email |-> e, password |-> p]), NoToken, NoToken)

RegisterRequest(e, p, n, ro) ==
  Request("register",
          MkData([email |-> e, password |-> p, full_name |-> n, role |-> ro]),
          NoToken, NoToken)

FirstAdminRequest(e, p, n) ==
  Request("register_first_admin",
          MkData([email |-> e, password |-> p, full_name |-> n]), NoToken, NoToken)

CheckAdminRequest == Request("check_admin", NoData, NoToken, NoToken)

\* the requests to the routes that read a token, or clear the cookie
TokenRequests(c, h) ==
  {Request("logout", NoData, c, h),
   Request("get_profile", NoData, c, h),
   Request("update_profile", MkData([full_name |-> n_cd]), c, h),
   Request("get_users", NoData, c, h),
   Request("get_current_user", NoData, c, h)}

\* a request to a route wrapped in role_required(required_role)
AdminRouteRequest(required_role, c, h) ==
  [op |-> "admin_route", required_role |-> required_role, data |-> NoData,
   cookie |-> c, header |-> h]

\* requests whose body is null, whose role is null, or whose full_name is
\* null on update
MalformedRequests ==
  {Request(op, NullBody, NoToken, NoToken) :
     op \in {"login", "register", "register_first_admin"}}
    \cup {RegisterRequest(e, pw1, n_ab, None) : e \in {e_ab, e_cd}}
    \cup {Request("update_profile", d, NoToken, h) :
            d \in {NullBody, MkData([full_name |-> None])}, h \in TokenInputs}

----------------------------------------------------------------------------
(* Spec: accounts and credentials.  Every route, at one instant.           *)

AccountRequests ==
  {LoginRequest(e, p) : e \in {e_ab, e_cd, Absent}, p \in {pw1, pw2, Absent}}
    \cup {RegisterRequest(e, p, n_ab, ro) :
            e \in {e_ab, e_cd}, p \in {pw1, pw2}, ro \in {Absent, s_Admin, s_boss}}
    \cup {RegisterRequest(e_bad, pw1, n_ab, Absent),
          RegisterRequest(e_ef, pw1, n_ab, Absent),
          RegisterRequest(Absent, pw1, n_ab, Absent),
          RegisterRequest(e_ab, Absent, n_ab, Absent),
          RegisterRequest(e_ab, pw1, Absent, Absent)}
    \cup {FirstAdminRequest(e, p, n_ab) : e \in {e_ab, e_cd}, p \in {pw1, pw2}}
    \cup {FirstAdminRequest(e_bad, pw1, n_ab),
          FirstAdminRequest(e_ab, Absent, n_ab),
          FirstAdminRequest(e_ab, pw1, Absent)}
    \cup {CheckAdminRequest}
    \cup UNION {TokenRequests(NoToken, h) : h \in TokenInputs}
    \cup TokenRequests(jar, NoToken)
    \cup MalformedRequests
    \cup {AdminRouteRequest(s_ADMIN, NoToken, h) : h \in TokenInputs}

Next ==
  \/ Ready /\ \E r \in AccountRequests : Login(r)
  \/ Ready /\ \E r \in AccountRequests : Logout(r)
  \/ Ready /\ \E r \in AccountRequests : Register(r)
  \/ Ready /\ \E r \in AccountRequests : GetProfile(r)
  \/ Ready /\ \E r \in AccountRequests : UpdateProfile(r)
  \/ Ready /\ \E r \in AccountRequests : CheckAdmin(r)
  \/ Ready /\ \E r \in AccountRequests : RegisterFirstAdmin(r)
  \/ Ready /\ \E r \in AccountRequests : GetUsers(r)
  \/ Ready /\ \E r \in AccountRequests : GetCurrentUser(r)
  \/ Ready /\ \E r \in AccountRequests : AdminRoute(r)
  \/ Idle

Spec == Init /\ [][Next]_vars

----------------------------------------------------------------------------
(* SpecSession: tokens over time.  Every route, few accounts, the clock,   *)
(* and a token in the cookie, in the header or in both.                    *)

SessionCarriers ==
  {ch \in TokenInputs \X TokenInputs :
     \/ ch[1] = NoToken
     \/ ch[2] = NoToken
     \/ ch[1] \in issued /\ ch[2] \in issued /\ ch[1] # ch[2]}

SessionRequests ==
  {LoginRequest(e_ab, pw1), LoginRequest(e_cd, pw1), LoginRequest(e_ab, pw2),
   RegisterRequest(e_ab, pw1, n_ab, Absent),
   FirstAdminRequest(e_cd, pw1, n_ab),
   CheckAdminRequest}
    \cup UNION {TokenRequests(ch[1], ch[2]) : ch \in SessionCarriers}
    \cup {AdminRouteRequest(ro, ch[1], ch[2]) :
            ro \in {s_admin, s_ADMIN}, ch \in SessionCarriers}

NextSession ==
  \/ Ready /\ \E r \in SessionRequests : Login(r)
  \/ Ready /\ \E r \in SessionRequests : Logout(r)
  \/ Ready /\ \E r \in SessionRequests : Register(r)
  \/ Ready /\ \E r \in SessionRequests : GetProfile(r)
  \/ Ready /\ \E r \in SessionRequests : UpdateProfile(r)
  \/ Ready /\ \E r \in SessionRequests : CheckAdmin(r)
  \/ Ready /\ \E r \in SessionRequests : RegisterFirstAdmin(r)
  \/ Ready /\ \E r \in SessionRequests : GetUsers(r)
  \/ Ready /\ \E r \in SessionRequests : GetCurrentUser(r)
  \/ Ready /\ \E r \in SessionRequests : AdminRoute(r)
  \/ Idle
  \/ Tick

SpecSession == Init /\ [][NextSession]_vars

----------------------------------------------------------------------------
(* SpecStore: the accounts of Spec, with the users table also written by   *)
(* a collaborator outside auth.py, which clears is_active on a row.        *)

Deactivate(user_id) ==
  /\ Ready
  /\ \E u \in users :
       /\ u.id = user_id
       /\ u.is_active
       /\ users' = (users \ {u}) \cup {[u EXCEPT !.is_active = FALSE]}
  /\ UNCHANGED <<nextId, now, issued, jar, req, resp, entered, registered, proc>>

\* the requests of Spec for the e-mails a@b.co and c@d.io
StoreRequests == {r \in AccountRequests : Get(r.data, "email") # e_ef}

NextStore ==
  \/ Ready /\ \E r \in StoreRequests : Login(r)
  \/ Ready /\ \E r \in StoreRequests : Logout(r)
  \/ Ready /\ \E r \in StoreRequests : Register(r)
  \/ Ready /\ \E r \in StoreRequests : GetProfile(r)
  \/ Ready /\ \E r \in StoreRequests : UpdateProfile(r)
  \/ Ready /\ \E r \in StoreRequests : CheckAdmin(r)
  \/ Ready /\ \E r \in StoreRequests : RegisterFirstAdmin(r)
  \/ Ready /\ \E r \in StoreRequests : GetUsers(r)
  \/ Ready /\ \E r \in StoreRequests : GetCurrentUser(r)
  \/ Ready /\ \E r \in StoreRequests : AdminRoute(r)
  \/ \E id \in 1..MaxUsers : Deactivate(id)
  \/ Idle

SpecStore == Init /\ [][NextStore]_vars

----------------------------------------------------------------------------
(* SpecGate: the role gates, for every role claim a token that verifies    *)
(* can carry, whoever signed it with JWT_SECRET_KEY.                       *)

s_staff == <<"s","t","a","f","f">>
s_Staff == <<"S","t","a","f","f">>
s_STAFF == <<"S","T","A","F","F">>
s_photographer == <<"p","h","o","t","o","g","r","a","p","h","e","r">>

RoleClaims == {s_admin, s_Admin, s_ADMIN, s_staff, s_Staff, s_STAFF, s_photographer}

\* tokens that verify until the clock reaches ACCESS_EXPIRES, one for each
\* role claim and one without a role claim
GateTokens ==
  {[sub |-> 1, email |-> e_ab, role |-> rc, iat |-> 0, exp |-> ACCESS_EXPIRES,
    key |-> "JWT_SECRET_KEY"] : rc \in RoleClaims}
    \cup {[sub |-> 1, email |-> e_ab, iat |-> 0, exp |-> ACCESS_EXPIRES,
           key |-> "JWT_SECRET_KEY"]}

GateRequests ==
  {LoginRequest(e_ab, pw1), LoginRequest(e_cd, pw1),
   RegisterRequest(e_ab, pw1, n_ab, Absent),
   RegisterRequest(e_ab, pw1, n_ab, s_Admin),
   RegisterRequest(e_cd, pw1, n_ab, Absent),
   FirstAdminRequest(e_cd, pw1, n_ab),
   CheckAdminRequest}
    \cup UNION {TokenRequests(NoToken, h) : h \in GateTokens \cup TokenInputs}
    \cup {AdminRouteRequest(ro, NoToken, h) :
            ro \in {s_admin, s_ADMIN}, h \in GateTokens \cup TokenInputs}

NextGate ==
  \/ Ready /\ \E r \in GateRequests : Login(r)
  \/ Ready /\ \E r \in GateRequests : Logout(r)
  \/ Ready /\ \E r \in GateRequests : Register(r)
  \/ Ready /\ \E r \in GateRequests : GetProfile(r)
  \/ Ready /\ \E r \in GateRequests : UpdateProfile(r)
  \/ Ready /\ \E r \in GateRequests : CheckAdmin(r)
  \/ Ready /\ \E r \in GateRequests : RegisterFirstAdmin(r)
  \/ Ready /\ \E r \in GateRequests : GetUsers(r)
  \/ Ready /\ \E r \in GateRequests : GetCurrentUser(r)
  \/ Ready /\ \E r \in GateRequests : AdminRoute(r)
  \/ Idle

SpecGate == Init /\ [][NextGate]_vars

----------------------------------------------------------------------------
(* SpecRace: register and register_first_admin answered by worker          *)
(* processes at the same time.  Each process has its own database          *)
(* session: a query sees the committed rows, and db.session.commit()       *)
(* inserts the row atomically or fails on the unique e-mail.  A step is    *)
(* the code from one database access to the next.                          *)

\* process p goes on to position pc
Goto(p, pc) == proc' = [proc EXCEPT ![p].pc = pc]

\* process p returns outcome o from position at
Return(p, o) ==
  proc' = [proc EXCEPT ![p] =
             [pc |-> "done", req |-> proc[p].req, at |-> proc[p].pc,
              resp |-> [status |-> o.status, body |-> o.body, cookie |-> o.cookie]]]

\* a worker receives request r
Begin(p, r) ==
  /\ proc[p].pc = "idle"
  /\ proc' = [proc EXCEPT ![p] =
                [pc |-> IF r.op = "register" THEN "register_lookup" ELSE "admin_check",
                 req |-> r]]
  /\ UNCHANGED <<users, nextId, now, issued, jar, req, resp, entered, registered>>

\* register, from the start to the query for the e-mail
RegisterLookup(p) ==
  LET data      == proc[p].req.data
      email     == Get(data, "email")
      password  == Get(data, "password")
      full_name == Get(data, "full_name")
  IN  /\ proc[p].pc = "register_lookup"
      /\ IF data = NullBody
         THEN Return(p, InternalError)
         ELSE IF ~(Truthy(email) /\ Truthy(password) /\ Truthy(full_name))
         THEN Return(p, Reply(400, [msg |-> "Email, password, and full name are required"]))
         ELSE IF ~is_valid_email(email)
         THEN Return(p, Reply(400, [msg |-> "Invalid email address"]))
         ELSE IF filter_by_email(email) # {}
         THEN Return(p, Reply(400, [msg |-> "Email already registered"]))
         ELSE Goto(p, "register_commit")
      /\ UNCHANGED <<users, nextId, now, issued, jar, req, resp, entered, registered>>

\* register, from the role lookup to the commit and the response; the
\* IntegrityError of a commit that fails is caught by nothing in auth.py
RegisterCommit(p) ==
  LET data      == proc[p].req.data
      email     == Get(data, "email")
      password  == Get(data, "password")
      full_name == Get(data, "full_name")
      role      == IF "role" \in DOMAIN data THEN data.role ELSE <<"S","T","A","F","F">>
      user_role == UserRoleByName(Upper(role))
      new_user  == User(nextId, email, generate_password_hash(password, nextId),
                        full_name, user_role, Get(data, "phone"), Get(data, "avatar_url"))
  IN  /\ proc[p].pc = "register_commit"
      /\ IF role = None
         THEN Return(p, InternalError) /\ UNCHANGED <<users, nextId, registered>>
         ELSE IF user_role = "KeyError"
         THEN Return(p, Reply(400, [msg |-> InvalidRoleMessage]))
                /\ UNCHANGED <<users, nextId, registered>>
         ELSE IF ~CommitOK(users \cup {new_user})
         THEN Return(p, InternalError) /\ UNCHANGED <<users, nextId, registered>>
         ELSE /\ Cardinality(users) < MaxUsers
              /\ users' = users \cup {new_user}
              /\ nextId' = nextId + 1
              /\ registered' = registered \cup
                   {[id |-> nextId, email |-> email, password |-> password]}
              /\ Return(p, [status |-> 201,
                            body |-> [msg |-> "User registered successfully",
                                      user_id |-> new_user.id, email |-> new_user.email],
                            cookie |-> NoCookie])
      /\ UNCHANGED <<now, issued, jar, req, resp, entered>>

\* register_first_admin: the query for a row with role ADMIN
FirstAdminCheck(p) ==
  /\ proc[p].pc = "admin_check"
  /\ IF admin_exists
     THEN Return(p, Reply(403, [msg |-> "Admin already exists"]))
     ELSE Goto(p, "admin_lookup")
  /\ UNCHANGED <<users, nextId, now, issued, jar, req, resp, entered, registered>>

\* register_first_admin, from reading the request to the query for the e-mail
FirstAdminLookup(p) ==
  LET data      == proc[p].req.data
      email     == Get(data, "email")
      password  == Get(data, "password")
      full_name == Get(data, "full_name")
  IN  /\ proc[p].pc = "admin_lookup"
      /\ IF data = NullBody
         THEN Return(p, InternalError)
         ELSE IF ~(Truthy(email) /\ Truthy(password) /\ Truthy(full_name))
         THEN Return(p, Reply(400, [msg |-> "All fields are required"]))
         ELSE IF ~is_valid_email(email)
         THEN Return(p, Reply(400, [msg |-> "Invalid email address"]))
         ELSE IF filter_by_email(email) # {}
         THEN Return(p, Reply(400, [msg |-> "Email already registered"]))
         ELSE Goto(p, "admin_commit")
      /\ UNCHANGED <<users, nextId, now, issued, jar, req, resp, entered, registered>>

\* register_first_admin, from the hash to the commit, the token and the response
FirstAdminCommit(p) ==
  LET data      == proc[p].req.data
      email     == Get(data, "email")
      password  == Get(data, "password")
      full_name == Get(data, "full_name")
      new_admin == User(nextId, email, generate_password_hash(password, nextId),
                        full_name, "ADMIN", None, None)
      access_token == create_access_token(new_admin)
  IN  /\ proc[p].pc = "admin_commit"
      /\ IF ~CommitOK(users \cup {new_admin})
         THEN Return(p, InternalError) /\ UNCHANGED <<users, nextId, registered, issued>>
         ELSE /\ Cardinality(users) < MaxUsers
              /\ users' = users \cup {new_admin}
              /\ nextId' = nextId + 1
              /\ registered' = registered \cup
                   {[id |-> nextId, email |-> email, password |-> password]}
              /\ issued' \in Retained(access_token)
              /\ Return(p, [status |-> 201,
                            body |-> [msg |-> "First admin registered successfully",
                                      admin_id |-> new_admin.id, email |-> new_admin.email,
                                      user |-> SessionUser(new_admin)],
                            cookie |-> set_cookie(access_token)])
      /\ UNCHANGED <<now, jar, req, resp, entered>>

\* the client of process p has read the response
Respond(p) ==
  /\ proc[p].pc = "done"
  /\ proc' = [proc EXCEPT ![p] = [pc |-> "idle"]]
  /\ UNCHANGED <<users, nextId, now, issued, jar, req, resp, entered, registered>>

RaceRequests ==
  {RegisterRequest(e, pw1, n_ab, ro) : e \in {e_ab, e_cd}, ro \in {Absent, s_boss}}
    \cup {FirstAdminRequest(e, pw1, n_ab) : e \in {e_ab, e_cd}}
    \cup {RegisterRequest(e_bad, pw1, n_ab, Absent), FirstAdminRequest(e_bad, pw1, n_ab)}

NextRace ==
  \/ \E p \in Procs : \E r \in RaceRequests : Begin(p, r)
  \/ \E p \in Procs : RegisterLookup(p)
  \/ \E p \in Procs : RegisterCommit(p)
  \/ \E p \in Procs : FirstAdminCheck(p)
  \/ \E p \in Procs : FirstAdminLookup(p)
  \/ \E p \in Procs : FirstAdminCommit(p)
  \/ \E p \in Procs : Respond(p)

SpecRace == Init /\ [][NextRace]_vars

----------------------------------------------------------------------------
(* Properties                                                              *)

\* the row a creating request produced, while it is in the store
RowOf(g) == {u \in users : u.id = g.id}

EmailTaken(e) == \E u \in users : u.email = e

AdminRow == \E u \in users : u.role = "ADMIN"

\* the three required fields of register and register-first-admin
AllPresent(d) ==
  Truthy(Get(d, "email")) /\ Truthy(Get(d, "password")) /\ Truthy(Get(d, "full_name"))

\* the passwords and e-mails a login can be tried with
TriedPasswords == {pw1, pw2}
TriedEmails == {e_ab, e_cd, e_bad}

\* C1: in every reachable state, for every row created by register or
\* register-first-admin with e-mail e and password p that is still active,
\* login with (e, p) answers 200 and sets a cookie whose token is signed by
\* the server, has that row's id as subject and exactly that row's e-mail
\* and lower-case role value as claims; a login request that was answered
\* for such a pair was answered so.
C1_LoginSucceeds ==
  /\ \A u \in users : \E g \in registered : g.id = u.id /\ g.email = u.email
  /\ \A g \in registered : \A u \in RowOf(g) :
       u.is_active =>
         LET o == login(LoginRequest(g.email, g.password))
             t == o.cookie.value
         IN  /\ o.status = 200
             /\ o.cookie.op = "set"
             /\ t.key = "JWT_SECRET_KEY"
             /\ t.sub = u.id
             /\ t.email = u.email
             /\ t.role = UserRoleValue[u.role]
             /\ DOMAIN t = {"sub", "email", "role", "iat", "exp", "key"}
             /\ o.body.user.id = u.id
             /\ o.store = users
  /\ req.op = "login" =>
       \A g \in registered : \A u \in RowOf(g) :
         (u.is_active /\ Get(req.data, "email") = g.email
            /\ Get(req.data, "password") = g.password) =>
           /\ resp.status = 200
           /\ resp.cookie.op = "set"
           /\ resp.cookie.value.sub = u.id
           /\ resp.cookie.value.email = u.email
           /\ resp.cookie.value.role = UserRoleValue[u.role]
           /\ jar = resp.cookie.value
           /\ jar \in issued

\* C1 witness: a login with the registered pair of a row with role ADMIN
\* was answered 200
C1_Witness ==
  /\ req.op = "login"
  /\ resp.status = 200
  /\ \E g \in registered : \E u \in RowOf(g) :
       /\ u.role = "ADMIN"
       /\ req.data.email = g.email
       /\ req.data.password = g.password
       /\ resp.cookie.value.role = s_admin

\* C2: in every reachable state, for every registered row, login with a
\* non-empty password other than the registered one answers 401
\* "Invalid email or password", sets no cookie (so issues no token), and
\* status, body and cookie are those of a login with an e-mail no row has;
\* with the password missing both are the same 400.
C2_WrongPassword ==
  /\ \A g \in registered : \A p \in TriedPasswords \cup {Absent} :
       (RowOf(g) # {} /\ p # g.password) =>
         LET o == login(LoginRequest(g.email, p))
         IN  /\ p # Absent =>
                  /\ o.status = 401
                  /\ o.body = [error |-> "Invalid email or password"]
             /\ p = Absent => o.status = 400
             /\ o.cookie = NoCookie
             /\ o.store = users
             /\ \A e \in TriedEmails :
                  ~EmailTaken(e) =>
                    LET n == login(LoginRequest(e, p))
                    IN  n.status = o.status /\ n.body = o.body /\ n.cookie = o.cookie
  /\ (req.op = "login" /\ Truthy(Get(req.data, "password"))) =>
       \A g \in registered :
         (RowOf(g) # {} /\ Get(req.data, "email") = g.email
            /\ Get(req.data, "password") # g.password) =>
           /\ resp.status = 401
           /\ resp.body = [error |-> "Invalid email or password"]
           /\ resp.cookie = NoCookie

\* C2 witness: a login with a registered e-mail and another password was
\* answered 401, while an e-mail that no row has exists to compare with
C2_Witness ==
  /\ req.op = "login"
  /\ resp.status = 401
  /\ \E g \in registered :
       /\ RowOf(g) # {}
       /\ req.data.email = g.email
       /\ req.data.password # g.password
  /\ \E e \in TriedEmails : ~EmailTaken(e)

\* C3: in every reachable state, login with the e-mail and the registered
\* password of a row whose is_active is false answers 403
\* "Account is deactivated" and sets no cookie; whatever the password, a
\* login for such a row sets no cookie and issues no token.
C3_InactiveRefused ==
  /\ \A g \in registered : \A u \in RowOf(g) :
       ~u.is_active =>
         /\ LET o == login(LoginRequest(g.email, g.password))
            IN  /\ o.status = 403
                /\ o.body = [error |-> "Account is deactivated"]
                /\ o.cookie = NoCookie
         /\ \A p \in TriedPasswords \cup {Absent} :
              login(LoginRequest(g.email, p)).cookie = NoCookie
  /\ req.op = "login" =>
       \A u \in users :
         (~u.is_active /\ Get(req.data, "email") = u.email) =>
           /\ resp.status \in {400, 401, 403}
           /\ resp.cookie = NoCookie
           /\ \A g \in registered :
                (g.id = u.id /\ Get(req.data, "password") = g.password) =>
                  resp.status = 403

\* C3 witness: a login with the right password of a deactivated row was
\* answered 403
C3_Witness ==
  /\ req.op = "login"
  /\ resp.status = 403
  /\ \E g \in registered : \E u \in RowOf(g) :
       /\ ~u.is_active
       /\ req.data.email = g.email
       /\ req.data.password = g.password

\* the role key of a register request names a member, or is missing
RoleResolves(d) ==
  "role" \notin DOMAIN d \/ (d.role # None /\ UserRoleByName(Upper(d.role)) \in UserRole)

\* a step that answers a request to route op
Answers(op) == Ready /\ req'.op = op

\* C4 as claimed: every register or register-first-admin request that has
\* its required fields and the e-mail of an existing row is answered 400
\* "Email already registered" and adds no row.
C4_Original ==
  [][(/\ Answers("register") \/ Answers("register_first_admin")
      /\ AllPresent(req'.data)
      /\ EmailTaken(req'.data.email))
        => /\ resp'.status = 400
           /\ resp'.body = [msg |-> "Email already registered"]
           /\ users' = users]_vars

\* C4 as amended: no two rows share an e-mail; a register request with its
\* required fields, a valid e-mail that no row has and a role that resolves
\* is answered 201 and adds one row with that e-mail; a later register
\* request with its required fields and that e-mail is answered 400
\* "Email already registered"; a later register-first-admin request with its
\* required fields and that e-mail is answered 403 "Admin already exists"
\* when a row with role ADMIN exists and 400 "Email already registered"
\* otherwise; neither adds a row.
C4_UniqueEmail ==
  /\ [](\A u, v \in users : u.email = v.email => u = v)
  /\ [][(/\ Answers("register")
         /\ AllPresent(req'.data)
         /\ is_valid_email(req'.data.email)
         /\ ~EmailTaken(req'.data.email)
         /\ RoleResolves(req'.data))
           => /\ resp'.status = 201
              /\ \E u \in users' : users' = users \cup {u} /\ u \notin users
                                     /\ u.email = req'.data.email]_vars
  /\ [][(/\ Answers("register")
         /\ AllPresent(req'.data)
         /\ EmailTaken(req'.data.email))
           => /\ resp'.status = 400
              /\ resp'.body = [msg |-> "Email already registered"]
              /\ users' = users]_vars
  /\ [][(/\ Answers("register_first_admin")
         /\ AllPresent(req'.data)
         /\ EmailTaken(req'.data.email))
           => /\ users' = users
              /\ AdminRow =>
                   /\ resp'.status = 403
                   /\ resp'.body = [msg |-> "Admin already exists"]
              /\ ~AdminRow =>
                   /\ resp'.status = 400
                   /\ resp'.body = [msg |-> "Email already registered"]]_vars

\* C4 witness: with two rows in the store, a register request for the e-mail
\* of one of them was answered 400 "Email already registered"
C4_Witness ==
  /\ req.op = "register"
  /\ resp.status = 400
  /\ resp.body = [msg |-> "Email already registered"]
  /\ Cardinality(users) = 2
  /\ EmailTaken(req.data.email)

\* C5: a register-first-admin request is answered 403 "Admin already
\* exists" and adds no row in every state in which a row with role ADMIN
\* exists; on the empty store a request with its required fields and a
\* valid e-mail is answered 201 and adds an ADMIN row with that e-mail; a
\* request is answered 201 only when no ADMIN row exists, and then one
\* does; and once an ADMIN row exists one always does, so no later request
\* is answered 201.
C5_BootstrapOnce ==
  /\ [][(Answers("register_first_admin") /\ AdminRow)
           => /\ resp'.status = 403
              /\ resp'.body = [msg |-> "Admin already exists"]
              /\ users' = users]_vars
  /\ [][(/\ Answers("register_first_admin")
         /\ users = {}
         /\ AllPresent(req'.data)
         /\ is_valid_email(req'.data.email))
           => /\ resp'.status = 201
              /\ \E u \in users' : /\ users' = {u}
                                   /\ u.role = "ADMIN"
                                   /\ u.email = req'.data.email]_vars
  /\ [][(Answers("register_first_admin") /\ resp'.status = 201)
           => ~AdminRow /\ AdminRow']_vars
  /\ [][AdminRow => AdminRow']_vars

\* C5 witness: after a register-first-admin request created the ADMIN row,
\* a request with another, unused e-mail was answered 403
C5_Witness ==
  /\ req.op = "register_first_admin"
  /\ resp.status = 403
  /\ AllPresent(req.data)
  /\ ~EmailTaken(req.data.email)
  /\ \E u \in users : u.role = "ADMIN" /\ u.phone = None /\ Cardinality(users) = 1

\* the routes behind @jwt_required()
Protected == {"get_profile", "update_profile", "get_users", "get_current_user"}

\* the role claim of token t is role, whatever the casing of either
HasRole(t, role) == "role" \in DOMAIN t /\ Upper(t.role) = Upper(role)

\* the request to route op that carries token t in the Authorization header
Bearer(op, t) ==
  IF op = "update_profile"
  THEN Request(op, MkData([full_name |-> n_cd]), NoToken, t)
  ELSE Request(op, NoData, NoToken, t)

\* C6: in every reachable state, for every token that verifies and whose
\* role claim is STAFF in any casing, a route wrapped in role_required,
\* with the required role written "admin" or "ADMIN", answers 403 without
\* running the wrapped route, and get_users answers 403 with no user in
\* the body; neither changes the store; and such a request that was
\* answered was answered so.
C6_StaffForbidden ==
  /\ \A t \in GateTokens \cup issued :
       (HasRole(t, s_staff) /\ verify_jwt_in_request(Bearer("get_users", t)) = "ok") =>
         /\ \A ro \in {s_admin, s_ADMIN} :
              LET o == admin_route(AdminRouteRequest(ro, NoToken, t))
              IN  /\ o.status = 403
                  /\ o.body = Forbidden
                  /\ ~o.ran
                  /\ o.store = users
         /\ LET o == get_users(Bearer("get_users", t))
            IN  /\ o.status = 403
                /\ o.body = Forbidden
                /\ o.store = users
  /\ (/\ req.op \in {"admin_route", "get_users"}
      /\ verify_jwt_in_request(req) = "ok"
      /\ HasRole(TokenInRequest(req), s_staff))
       => /\ resp.status = 403
          /\ resp.body = Forbidden
          /\ req.op = "admin_route" => ~entered

\* C6 witness: a route that requires "admin" was asked with a token that
\* verifies and whose role claim is written "Staff", and answered 403
C6_Witness ==
  /\ req.op = "admin_route"
  /\ req.required_role = s_admin
  /\ verify_jwt_in_request(req) = "ok"
  /\ Get(TokenInRequest(req), "role") = s_Staff
  /\ resp.status = 403
  /\ ~entered

\* C7 as claimed: for every token that verifies, get_users answers 200 with
\* the projection of every row of the store when the role claim is ADMIN
\* in any casing and 403 otherwise, and answers 200 exactly when a route
\* wrapped in role_required("ADMIN") does.
C7_ListUsersGate ==
  (req.op = "get_users" /\ verify_jwt_in_request(req) = "ok") =>
    /\ HasRole(TokenInRequest(req), s_ADMIN) =>
         /\ resp.status = 200
         /\ resp.body = [users |-> {as_dict(u) : u \in users}]
    /\ ~HasRole(TokenInRequest(req), s_ADMIN) =>
         /\ resp.status = 403
         /\ resp.body = Forbidden
    /\ resp.status =
         admin_route(AdminRouteRequest(s_ADMIN, req.cookie, req.header)).status

\* C8: in every reachable state, every token that login or
\* register-first-admin issued expires ACCESS_EXPIRES (24 hours) after it
\* was issued and carries the id, the e-mail and the role value of the row
\* it was issued for; while the clock is before the expiry it verifies and
\* the claims read from it are the ones it was issued with; once the clock
\* has reached the expiry a request with it is answered 401 token_expired,
\* a body different from the 401 invalid_token of a token with another
\* signature and from the 401 authorization_required of no token.
C8_TokenLifetime ==
  /\ \A t \in issued :
       LET r       == Bearer("get_current_user", t)
           o       == get_current_user(r)
           forged  == get_current_user(Bearer("get_current_user", Tampered(t)))
           missing == get_current_user(Bearer("get_current_user", NoToken))
       IN  /\ t.exp = t.iat + ACCESS_EXPIRES
           /\ t.exp = t.iat + 24 * 60 * 60
           /\ \E u \in users :
                /\ u.id = t.sub
                /\ u.email = t.email
                /\ UserRoleValue[u.role] = t.role
           /\ now < t.iat + ACCESS_EXPIRES =>
                /\ verify_jwt_in_request(r) = "ok"
                /\ o.status = 200
                /\ o.body.id = t.sub
                /\ o.body.claims =
                     [sub |-> t.sub, email |-> t.email, role |-> t.role,
                      iat |-> t.iat, exp |-> t.exp]
           /\ now >= t.iat + ACCESS_EXPIRES =>
                /\ verify_jwt_in_request(r) = "token_expired"
                /\ o.status = 401
                /\ o.body.error = "token_expired"
                /\ ~o.ran
           /\ forged.status = 401
           /\ forged.body.error = "invalid_token"
           /\ missing.status = 401
           /\ missing.body.error = "authorization_required"
           /\ now >= t.exp => o.body # forged.body /\ o.body # missing.body
           /\ forged.body # missing.body
  /\ (req.op = "get_current_user" /\ TokenInRequest(req) \in issued) =>
       LET t == TokenInRequest(req)
       IN  /\ now < t.iat + ACCESS_EXPIRES =>
                /\ resp.status = 200
                /\ resp.body.id = t.sub
                /\ resp.body.claims.email = t.email
                /\ resp.body.claims.role = t.role
           /\ now >= t.iat + ACCESS_EXPIRES =>
                /\ resp.status = 401
                /\ resp.body.error = "token_expired"

\* C8 witness: a token issued after the clock had started was presented
\* at the instant it expired and answered 401 token_expired
C8_Witness ==
  /\ req.op = "get_current_user"
  /\ TokenInRequest(req) \in issued
  /\ TokenInRequest(req).iat > 0
  /\ now = TokenInRequest(req).iat + ACCESS_EXPIRES
  /\ resp.status = 401
  /\ resp.body.error = "token_expired"

\* C9: every request to a protected route (get_profile, update_profile,
\* get_users, get_current_user) whose token is missing, signed with another
\* key or expired is answered 401 with the error of the failed
\* verification, the body of the handler does not run, and the store, the
\* issued tokens and the cookie are left as they were; in particular
\* get_users answers 401, not 403, whatever the role claim of the token.
C9_Unauthorized ==
  [][(\E op \in Protected : Answers(op) /\ verify_jwt_in_request(req') # "ok")
       => /\ resp'.status = 401
          /\ resp'.body.error = verify_jwt_in_request(req')
          /\ resp'.body.error \in
               {"authorization_required", "invalid_token", "token_expired"}
          /\ ~entered'
          /\ resp'.cookie = NoCookie
          /\ users' = users
          /\ issued' = issued
          /\ jar' = jar]_vars

\* C9 witness: get_users was asked with the expired token of a row whose
\* role is not ADMIN and answered 401
C9_Witness ==
  /\ req.op = "get_users"
  /\ verify_jwt_in_request(req) = "token_expired"
  /\ TokenInRequest(req).role # s_admin
  /\ resp.status = 401
  /\ ~entered
  /\ users # {}

\* C10: in every reachable state logout answers 200 "Logout successful"
\* and deletes the access_token cookie, whatever token the request carries
\* in the cookie or in the header; every logout step leaves the browser
\* without the cookie and leaves the store and the issued tokens as they
\* were, so a logout that follows a logout is answered the same and
\* changes nothing.
C10_Logout ==
  /\ [](\A ch \in SessionCarriers :
          LET o == logout(Request("logout", NoData, ch[1], ch[2]))
          IN  /\ o.status = 200
              /\ o.body = [message |-> "Logout successful"]
              /\ o.cookie = delete_cookie
              /\ o.store = users
              /\ ~o.created)
  /\ [][Answers("logout")
          => /\ resp'.status = 200
             /\ resp'.cookie = delete_cookie
             /\ jar' = NoToken
             /\ users' = users
             /\ issued' = issued
             /\ nextId' = nextId]_vars
  /\ [](req.op = "logout" =>
          LET again == logout(req)
          IN  /\ jar = NoToken
              /\ again.status = resp.status
              /\ again.body = resp.body
              /\ again.cookie = resp.cookie
              /\ again.store = users)

\* C10 witness: logout was asked with a token signed with another key,
\* by a browser that holds no cookie any more, and answered 200
C10_Witness ==
  /\ req.op = "logout"
  /\ verify_jwt_in_request(req) = "invalid_token"
  /\ resp.status = 200
  /\ resp.cookie = delete_cookie
  /\ jar = NoToken
  /\ users # {}
  /\ issued # {}

\* the outcome of the protected route op for request r
ProtectedOutcome(op, r) ==
  CASE op = "get_profile"      -> get_profile(r)
    [] op = "update_profile"   -> update_profile(r)
    [] op = "get_users"        -> get_users(r)
    [] op = "get_current_user" -> get_current_user(r)

\* the request to route op that carries token t in the access_token cookie
InCookie(op, t) == [Bearer(op, t) EXCEPT !.cookie = t, !.header = NoToken]

\* C11: in every state a logout leaves, every issued token that has not
\* expired still verifies and lets the body of every protected route run,
\* carried in the Authorization header or in the access_token cookie, with
\* the same outcome; a logout step leaves the issued tokens and the store
\* as they were; and every protected request that was sent with an issued,
\* unexpired token, before or after a logout, in the cookie or in the
\* header, had its body run and was not answered 401.
C11_NoRevocation ==
  /\ [](req.op = "logout" =>
          \A t \in issued : now < t.exp =>
            \A op \in Protected :
              LET o == ProtectedOutcome(op, Bearer(op, t))
              IN  /\ o.ran
                  /\ o.status # 401
                  /\ ProtectedOutcome(op, InCookie(op, t)) = o)
  /\ [][Answers("logout") => issued' = issued /\ users' = users /\ now' = now]_vars
  /\ []((/\ req.op \in Protected
         /\ TokenInRequest(req) \in issued
         /\ now < TokenInRequest(req).exp)
          => entered /\ resp.status # 401)

\* C11 witness: the browser's cookie is deleted, which only a logout after
\* the last login does, and get_profile, sent with an issued token in a
\* re-sent cookie, was answered 200
C11_Witness ==
  /\ jar = NoToken
  /\ req.op = "get_profile"
  /\ req.cookie \in issued
  /\ req.header = NoToken
  /\ now > 0
  /\ resp.status = 200

\* C12: a response sets the access_token cookie exactly when it is the 200
\* of login or the 201 of register-first-admin; the token of that cookie
\* is signed by the server and is the only token the step adds to the
\* issued ones, and a step that sets no cookie adds none; the 201 of
\* register sets no cookie and leaves the issued tokens and the browser's
\* cookie as they were; the token of register-first-admin has the id of
\* the new ADMIN row as subject, its e-mail, and the role claim "admin".
C12_TokenIssuers ==
  [][(Ready /\ ~Ready') =>
       /\ (resp'.cookie.op = "set") <=>
            \/ req'.op = "login" /\ resp'.status = 200
            \/ req'.op = "register_first_admin" /\ resp'.status = 201
       /\ resp'.cookie.op = "set" =>
            /\ resp'.cookie.value.key = "JWT_SECRET_KEY"
            /\ resp'.cookie.value \in issued'
            /\ issued' \subseteq issued \cup {resp'.cookie.value}
            /\ jar' = resp'.cookie.value
       /\ resp'.cookie.op # "set" =>
            /\ issued' = issued
            /\ jar' \in {jar, NoToken}
       /\ (req'.op = "register" /\ resp'.status = 201) =>
            /\ resp'.cookie = NoCookie
            /\ issued' = issued
            /\ jar' = jar
       /\ (req'.op = "register_first_admin" /\ resp'.status = 201) =>
            \E u \in users' \ users :
              /\ u.role = "ADMIN"
              /\ resp'.cookie.value.sub = u.id
              /\ resp'.cookie.value.email = u.email
              /\ resp'.cookie.value.email = req'.data.email
              /\ resp'.cookie.value.role = s_admin]_vars

\* C12 witness: register created a row with role ADMIN and was answered
\* 201 without a cookie, and no token has been issued yet
C12_Witness ==
  /\ req.op = "register"
  /\ resp.status = 201
  /\ resp.cookie = NoCookie
  /\ \E u \in users : u.role = "ADMIN" /\ u.email = req.data.email
  /\ issued = {}
  /\ jar = NoToken

\* the password hashes of the store, and the plaintexts they were made of
\* together with the one of the request being answered
Hashes == {u.password : u \in users}
Plaintexts ==
  {g.password : g \in registered}
    \cup (IF ~Ready /\ Truthy(Get(req.data, "password"))
          THEN {req.data.password} ELSE {})

\* the keys of a response or a token whose value is text
TextKeys == {"email", "full_name", "phone", "avatar_url", "role", "last_login"}

\* record rec has a password key, or a text key whose value is a password
\* hash or a plaintext password
Leaks(rec) ==
  \/ "password" \in DOMAIN rec
  \/ \E k \in DOMAIN rec \cap TextKeys :
       \/ rec[k] \in Plaintexts
       \/ \E h \in Hashes : rec[k] = h

\* the objects of a response body: the body, its user and claims objects,
\* and the elements of its users list
Objects(body) ==
  {body}
    \cup (IF "user" \in DOMAIN body THEN {body.user} ELSE {})
    \cup (IF "claims" \in DOMAIN body THEN {body.claims} ELSE {})
    \cup (IF "users" \in DOMAIN body THEN body.users ELSE {})

\* C13: in every reachable state, no object of the response to the request
\* being answered (success or error, of any route) has a password key or
\* carries a password hash of the store or a plaintext password, and
\* neither does the token of its cookie nor any issued token.
C13_NoPasswordLeak ==
  /\ ~Ready =>
       /\ \A o \in Objects(resp.body) : ~Leaks(o)
       /\ resp.cookie.op = "set" => ~Leaks(resp.cookie.value)
  /\ \A t \in issued : ~Leaks(t)

\* C13 witness: get_users was answered 200 with the projections of two rows
C13_Witness ==
  /\ req.op = "get_users"
  /\ resp.status = 200
  /\ Cardinality(resp.body.users) = 2

\* spellings of the three role names, and strings that spell none of them
RoleSpellings ==
  [ADMIN        |-> {s_admin, s_Admin, s_ADMIN},
   PHOTOGRAPHER |-> {s_photographer,
                     <<"P","h","o","t","o","G","R","A","P","H","E","R">>},
   STAFF        |-> {s_staff, s_Staff, s_STAFF}]
NoRoleStrings ==
  {s_boss, <<>>, <<"a","d","m","i","n","s">>, <<" ","a","d","m","i","n">>,
   <<"a","d","m","i","n"," ">>, <<"s","t","a","f">>}

\* C14: in every reachable state every row has one of the three roles; a
\* register request with the required fields and a valid e-mail no row has
\* is answered 201 and adds a row with role ADMIN, PHOTOGRAPHER or STAFF
\* when its role string spells that name in any casing, and with role
\* STAFF when it has no role key; when its role string spells none of the
\* three it is answered 400 "Invalid role specified..." and the store is
\* left as it was; and every register step that was answered did so.
C14_RoleResolution ==
  /\ [](\A u \in users : u.role \in UserRole)
  /\ [](Ready =>
          \A e \in {e_ab, e_cd, e_ef} : ~EmailTaken(e) =>
            /\ \A m \in UserRole : \A ro \in RoleSpellings[m] \cup (IF m = "STAFF" THEN {Absent} ELSE {}) :
                 LET o == register(RegisterRequest(e, pw1, n_ab, ro))
                 IN  /\ o.status = 201
                     /\ o.created
                     /\ \E u \in o.store : /\ o.store = users \cup {u}
                                           /\ u \notin users
                                           /\ u.email = e
                                           /\ u.role = m
            /\ \A ro \in NoRoleStrings :
                 LET o == register(RegisterRequest(e, pw1, n_ab, ro))
                 IN  /\ o.status = 400
                     /\ o.body = [msg |-> InvalidRoleMessage]
                     /\ o.store = users
                     /\ ~o.created)
  /\ [][(Answers("register") /\ resp'.status = 201) =>
          \E u \in users' \ users :
            /\ users' = users \cup {u}
            /\ "role" \notin DOMAIN req'.data => u.role = "STAFF"
            /\ "role" \in DOMAIN req'.data => req'.data.role \in RoleSpellings[u.role]]_vars
  /\ [][(/\ Answers("register")
         /\ "role" \in DOMAIN req'.data
         /\ req'.data.role \in NoRoleStrings)
          => resp'.status = 400 /\ users' = users]_vars

\* C14 witness: register with the role written "Admin" was answered 201
\* and the new row has role ADMIN, next to a row with role STAFF
C14_Witness ==
  /\ req.op = "register"
  /\ resp.status = 201
  /\ Get(req.data, "role") = s_Admin
  /\ \E u \in users : u.email = req.data.email /\ u.role = "ADMIN"
  /\ \E u \in users : u.role = "STAFF"

\* processes p and q have both answered a request to route op with a role
\* that resolves, and both returned from the commit: each got past its
\* query for the e-mail before the other committed
Raced(p, q, op) ==
  /\ p # q
  /\ proc[p].pc = "done" /\ proc[q].pc = "done"
  /\ proc[p].req.op = op /\ proc[q].req.op = op
  /\ \A x \in {p, q} :
       /\ proc[x].at \in {"register_commit", "admin_commit"}
       /\ RoleResolves(proc[x].req.data)

\* C15 as claimed: when two register requests for the same e-mail were
\* answered at the same time, both past the query for the e-mail before
\* either commit, one was answered 201 and the other 400
\* "Email already registered", and the store holds one row with that e-mail.
C15_RegisterRace ==
  \A p, q \in Procs :
    (Raced(p, q, "register") /\ proc[p].req.data.email = proc[q].req.data.email) =>
      /\ Cardinality(filter_by_email(proc[p].req.data.email)) = 1
      /\ \E x \in {p, q} :
           /\ proc[x].resp.status = 201
           /\ \A y \in {p, q} \ {x} :
                /\ proc[y].resp.status = 400
                /\ proc[y].resp.body = [msg |-> "Email already registered"]

\* C16 as claimed: when two register-first-admin requests with different
\* e-mails were answered at the same time, at most one of them was
\* answered 201, and the store holds at most one row with role ADMIN
\* (in SpecRace only register_first_admin creates such rows).
C16_BootstrapRace ==
  /\ \A p, q \in Procs :
       (/\ p # q
        /\ proc[p].pc = "done" /\ proc[q].pc = "done"
        /\ proc[p].req.op = "register_first_admin"
        /\ proc[q].req.op = "register_first_admin"
        /\ proc[p].req.data.email # proc[q].req.data.email)
         => ~(proc[p].resp.status = 201 /\ proc[q].resp.status = 201)
  /\ Cardinality({u \in users : u.role = "ADMIN"}) <= 1

p_07  == <<"0","7">>
a_url == <<"u","r","l">>

\* bodies of PUT /profile: every choice of the three profile keys, null
\* included, and one that also names columns the route does not update
UpdateBodies ==
  {MkData([full_name |-> f, phone |-> ph, avatar_url |-> av]) :
     f \in {Absent, n_cd, None}, ph \in {Absent, p_07, None}, av \in {Absent, a_url}}
    \cup {[full_name |-> n_cd, email |-> e_ef, role |-> s_admin, is_active |-> FALSE,
           password |-> pw2, id |-> 0]}

\* store after is store before with at most the row of id sub changed, in
\* at most the profile keys of data, each to the value data gives it
ProfileFrame(before, after, sub, data) ==
  \E u \in before : \E v \in after :
    /\ u.id = sub
    /\ after = (before \ {u}) \cup {v}
    /\ \A k \in {"id", "email", "password", "role", "is_active", "last_login"} :
         v[k] = u[k]
    /\ \A k \in {"full_name", "phone", "avatar_url"} :
         v[k] = IF k \in DOMAIN data THEN data[k] ELSE u[k]

C18_NoInternalError ==
  req.op \in {"login", "register", "register_first_admin", "update_profile"} =>
    /\ resp.status \in {200, 201, 400, 401, 403, 404, 409}
    /\ resp.body # InternalError.body


----------------------------------------------------------------------------
(* auth.py: register and register_first_admin over the e-mail forms that   *)
(* is_valid_email tells apart                                               *)

\* c repeated n times
Rep(c, n) == [i \in 1..n |-> c]

\* four labels of 61 characters, each followed by a dot: 248 characters
LongLabels ==
  LET l == Rep("b", 61) \o <<".">> IN l \o l \o l \o l

q_at      == <<"\"","@","\"","@","b",".","c","o">>
q_ab      == <<"\"","a","@","b","\"","@","c",".","d","e">>
e_2at     == <<"a","@","@","b",".","c","o">>
e_3part   == <<"a","@","b","@","c",".","d","e">>
e_pad     == <<" "," ","a","@","b",".","c","o"," ">>
e_tld1    == <<"a","@","b",".","c">>
e_dots    == <<"a",".",".","b","@","c",".","d","e">>
e_hyph1   == <<"a","@","-","b",".","c","o">>
e_hyph2   == <<"a","@","b",".","c","o","-">>
e_dot1    == <<"a","@",".","b",".","c","o">>
e_dot2    == <<"a","@","b",".","c","o",".">>
e_ldot    == <<".","a","@","b",".","c","o">>
e_ip      == <<"a","@","[","1",".","2",".","3",".","4","]">>
e_ip256   == <<"a","@","[","2","5","6",".","1",".","1",".","1","]">>
e_under   == <<"a","@","b","_","c",".","d","e">>
e_local64 == Rep("x", 64) \o <<"@","b",".","c","o">>
e_local65 == Rep("x", 65) \o <<"@","b",".","c","o">>
e_len254  == <<"a","@">> \o LongLabels \o <<"c","o","m","m">>
e_len255  == <<"a","b","@">> \o LongLabels \o <<"c","o","m","m">>
e_pad255  == <<" ">> \o e_len254

EmailInputs ==
  {e_ab, e_cd, e_bad, q_at, q_ab, e_2at, e_3part, e_pad, e_tld1, e_dots,
   e_hyph1, e_hyph2, e_dot1, e_dot2, e_ldot, e_ip, e_ip256, e_under,
   e_local64, e_local65, e_len254, e_len255, e_pad255}

EmailRequests ==
  {RegisterRequest(e, pw1, n_ab, Absent) : e \in EmailInputs}
    \cup {FirstAdminRequest(e, pw1, n_ab) : e \in EmailInputs}

NextEmail ==
  \/ Ready /\ \E r \in EmailRequests : Register(r)
  \/ Ready /\ \E r \in EmailRequests : RegisterFirstAdmin(r)
  \/ Idle

SpecEmail == Init /\ [][NextEmail]_vars

\* the rules the length, "@", dot, hyphen and top-level-domain limits put on
\* an address, read off the address itself after its surrounding white space
\* is dropped
EmailRules(email) ==
  LET e    == Strip(email)
      ats  == {i \in 1..Len(e) : e[i] = "@"}
      at   == CHOOSE i \in ats : TRUE
      dots == {i \in (at + 1)..Len(e) : e[i] = "."}
  IN  /\ Len(e) <= MAX_EMAIL_LEN
      /\ Cardinality(ats) = 1
      /\ at - 1 <= MAX_LOCAL_LEN
      /\ Len(e) - at <= MAX_DOMAIN_LEN
      /\ \A i \in 1..(Len(e) - 1) : ~(e[i] = "." /\ e[i + 1] = ".")
      /\ dots # {}
      /\ \A i \in dots : (\A j \in dots : j <= i) => Len(e) - i >= MIN_TLD_LEN
      /\ at < Len(e)
      /\ e[at + 1] \notin {".", "-"}
      /\ e[Len(e)] \notin {".", "-"}

\* C19 as claimed: an address that is_valid_email accepts has at most 254
\* characters, a local part of at most 64 and a domain of at most 253,
\* exactly one "@", no two dots in a row, a last domain label of at least 2
\* characters and a domain that neither starts nor ends with a dot or a
\* hyphen; and no row written by register or register-first-admin holds an
\* e-mail that is_valid_email rejects.
C19_EmailRules ==
  /\ req.op \in {"register", "register_first_admin"} =>
       (is_valid_email(req.data.email) => EmailRules(req.data.email))
  /\ \A u \in users : is_valid_email(u.email) /\ EmailRules(u.email)

\* the rows with role ADMIN
AdminRows == {u \in users : u.role = "ADMIN"}

\* register-first-admin requests, well-formed and not
BootstrapRequests ==
  {FirstAdminRequest(e, p, n_ab) : e \in {e_ab, e_cd, e_ef, e_bad}, p \in {pw1, pw2, Absent}}
    \cup {Request("register_first_admin", NullBody, NoToken, NoToken)}

\* C20: a register request that carries no token, has its required fields,
\* a valid unused e-mail and the role ADMIN in any casing is answered 201
\* and adds one row, of role ADMIN with that e-mail; it does so whether or
\* not an ADMIN row exists already, so each such request adds one more ADMIN
\* row; and once an ADMIN row exists check_admin answers admin_exists true
\* and every register-first-admin request is answered 403 and adds no row.
C20_OpenAdminRegister ==
  /\ [](Ready =>
          \A e \in {e_ab, e_cd, e_ef}, ro \in {s_admin, s_Admin, s_ADMIN} :
            ~EmailTaken(e) =>
              LET o == register(RegisterRequest(e, pw1, n_ab, ro))
              IN  /\ o.status = 201
                  /\ \E u \in o.store \ users : /\ o.store = users \cup {u}
                                               /\ u.role = "ADMIN"
                                               /\ u.email = e)
  /\ [][(/\ Answers("register")
         /\ resp'.status = 201
         /\ "role" \in DOMAIN req'.data
         /\ Upper(req'.data.role) = s_ADMIN)
           => /\ req'.cookie = NoToken /\ req'.header = NoToken
              /\ issued' = issued
              /\ \E u \in users' \ users : /\ users' = users \cup {u}
                                           /\ u.role = "ADMIN"
                                           /\ u.email = req'.data.email]_vars
  /\ [](AdminRow =>
          /\ check_admin(CheckAdminRequest).status = 200
          /\ check_admin(CheckAdminRequest).body = [admin_exists |-> TRUE]
          /\ \A r \in BootstrapRequests :
               /\ register_first_admin(r).status = 403
               /\ register_first_admin(r).store = users)

\* C20 witness: no token was ever issued, two register requests with the
\* role "Admin" were answered 201, and the store holds two ADMIN rows
C20_Witness ==
  /\ issued = {}
  /\ req.op = "register"
  /\ resp.status = 201
  /\ "role" \in DOMAIN req.data
  /\ Upper(req.data.role) = s_ADMIN
  /\ req.cookie = NoToken /\ req.header = NoToken
  /\ Cardinality(AdminRows) = 2

\* the routes that only read the users table
ReadOnly == {"login", "logout", "get_profile", "check_admin", "get_users",
             "get_current_user"}

\* C21: a request to login, logout, get_profile, check_admin, get_users or
\* get_current_user leaves the users table as it was, whatever its answer;
\* and last_login is None in every row of every reachable state, a
\* successful login included.
C21_ReadOnlyRoutes ==
  /\ [][(\E op \in ReadOnly : Answers(op))
          => /\ users' = users
             /\ nextId' = nextId
             /\ registered' = registered]_vars
  /\ [](\A u \in users : u.last_login = None)

\* C21 witness: a login was answered 200 with a cookie, and the row of the
\* user let in, like every other row, has no last_login
C21_Witness ==
  /\ req.op = "login"
  /\ resp.status = 200
  /\ resp.cookie.op = "set"
  /\ Cardinality(users) = MaxUsers
  /\ \E u \in users : u.email = req.data.email /\ u.last_login = None
  /\ \A u \in users : u.last_login = None

\* the row of the subject of token t, with the e-mail and the role of its
\* claims, is in the table and active
Resolves(t) ==
  \E u \in users : /\ u.id = t.sub
                   /\ u.is_active
                   /\ u.email = t.email
                   /\ UserRoleValue[u.role] = t.role

\* C22: no step removes a row or changes the id, e-mail, role or is_active
\* of one; so every issued token that has not expired names, in its subject,
\* a row that exists, is active and has the e-mail and the role of the
\* token's claims; no login is answered 403 "Account is deactivated", and
\* no get_profile, update_profile or get_current_user is answered 404.
C22_TokensResolve ==
  /\ [][\A u \in users : \E v \in users' : /\ v.id = u.id
                                           /\ v.email = u.email
                                           /\ v.role = u.role
                                           /\ v.is_active = u.is_active]_vars
  /\ [](\A t \in issued : now < t.exp => Resolves(t))
  /\ [](req.op = "login" => resp.status # 403)
  /\ [](req.op \in {"get_profile", "update_profile", "get_current_user"}
          => resp.status # 404)

\* C22 witness: after the clock moved, one issued token has expired and
\* another has not; the holder of the live one updated the profile, and the
\* row still has the id, e-mail and role of the token's claims
C22_Witness ==
  /\ req.op = "update_profile"
  /\ resp.status = 200
  /\ now > 0
  /\ \E t \in issued : t.exp <= now
  /\ \E t \in issued : /\ now < t.exp
                       /\ t = TokenInRequest(req)
                       /\ Resolves(t)
                       /\ \E u \in users : u.id = t.sub /\ u.full_name = n_cd

====
